---- MODULE Spec2Model ----
(***************************************************************************)
(* Model of src/spend_info/split.rs (SplitSpendInfo): the taproot contract *)
(* of one player's split-TX payout output.                                 *)
(*                                                                         *)
(* Bytes are integers 0..255 and scripts are sequences of bytes, built     *)
(* exactly as bitcoin::script::Builder builds them.  The secp256k1 group   *)
(* is modelled by the cyclic group of integers modulo CurveOrder: a point  *)
(* is its discrete logarithm 1..CurveOrder-1, 0 is the point at infinity,  *)
(* the x coordinate of k and of -k is the same and exactly one of the two  *)
(* has even y.  Tagged hashes over the tree are modelled as ideal          *)
(* (collision-free): a node hash is the byte string it commits to.         *)
(***************************************************************************)
EXTENDS Integers, Sequences, FiniteSets, TLC

(***************************************************************************)
(* Bounds of the model                                                     *)
(***************************************************************************)
MaxPayout == 1

\* round delays (block_delta: u16) the model explores: zero, the end of the
\* push_int opcode range (1..16), a day of blocks (a data push with a sign
\* byte), the first value whose double no longer fits 16 bits, and the
\* largest u16
Delays == {0, 16, 144, 32768, 65535}

\* filler bytes of the 32-byte ticket hashes the model explores
TicketBytes == {17}

Runs == {1, 2}

(***************************************************************************)
(* Program and protocol constants                                          *)
(***************************************************************************)
SCHNORR_SIGNATURE_SIZE == 64
PREIMAGE_SIZE == 32

OP_0 == 0
OP_PUSHBYTES_32 == 32
OP_PUSHDATA1 == 76
OP_TRUE == 81
OP_DROP == 117
OP_EQUALVERIFY == 136
OP_SHA256 == 168
OP_CHECKSIG == 172
OP_CSV == 178

\* LeafVersion::TapScript
TapScript == 192

\* BIP 68 / BIP 112: what OP_CSV reads of the number it is given
SEQUENCE_LOCKTIME_MASK == 65535

CurveOrder == 5

None == [tag |-> "none"]

(***************************************************************************)
(* Byte strings                                                            *)
(***************************************************************************)
Fill(n, b) == [i \in 1..n |-> b]

\* byte-lexicographic order
LexLess(a, b) ==
    LET n == IF Len(a) < Len(b) THEN Len(a) ELSE Len(b)
        d == {i \in 1..n : a[i] # b[i]}
    IN IF d = {} THEN Len(a) < Len(b)
       ELSE LET i == CHOOSE k \in d : \A j \in d : k <= j
            IN a[i] < b[i]

\* a stand-in for a hash read as a number: a polynomial of the bytes
RECURSIVE DigestRange(_, _, _)
DigestRange(bytes, lo, hi) ==
    IF lo > hi THEN 0
    ELSE IF lo = hi THEN (bytes[lo] * 31 + lo * 7 + 1) % 65521
    ELSE LET mid == (lo + hi) \div 2
         IN (DigestRange(bytes, lo, mid) * 131 + DigestRange(bytes, mid + 1, hi)) % 65521

Digest(bytes) == DigestRange(bytes, 1, Len(bytes))

(***************************************************************************)
(* secp::Point                                                             *)
(***************************************************************************)
Infinity == 0
Points == 1..(CurveOrder - 1)

PointAdd(p, q) == (p + q) % CurveOrder
PointMul(k, p) == (k * p) % CurveOrder
PointNeg(p) == (CurveOrder - p) % CurveOrder

HasEvenY(p) == 2 * p < CurveOrder
XOnly(p) == IF HasEvenY(p) THEN p ELSE PointNeg(p)

\* Point::serialize_xonly: 32 bytes
SerializeXOnly(p) == Fill(31, 0) \o <<XOnly(p)>>
\* Point::serialize: 33 bytes, the parity byte first
Serialize(p) == <<IF HasEvenY(p) THEN 2 ELSE 3>> \o SerializeXOnly(p)

(***************************************************************************)
(* bitcoin::script::Builder                                                *)
(***************************************************************************)
RECURSIVE ScriptIntMagnitude(_)
ScriptIntMagnitude(abs) ==
    IF abs > 255 THEN <<abs % 256>> \o ScriptIntMagnitude(abs \div 256)
    ELSE IF abs >= 128 THEN <<abs, 0>>
    ELSE <<abs>>

\* write_scriptint, for n >= 0
WriteScriptInt(n) == IF n = 0 THEN <<>> ELSE ScriptIntMagnitude(n)

PushSlice(data) ==
    IF Len(data) < OP_PUSHDATA1 THEN <<Len(data)>> \o data
    ELSE <<OP_PUSHDATA1, Len(data)>> \o data

PushInt(n) ==
    IF n >= 1 /\ n <= 16 THEN <<n - 1 + OP_TRUE>>
    ELSE IF n = 0 THEN <<OP_0>>
    ELSE PushSlice(WriteScriptInt(n))

\* a plausible slip: the delay narrowed to a byte before the push
WinLocktime_narrowed(block_delta) == block_delta % 256

\* block_delta as i64
WinLocktime(block_delta) == block_delta

\* 2 * block_delta as i64: the cast binds first, the product is an i64
ReclaimLocktime(block_delta) == 2 * block_delta

WinScript(winner, block_delta) ==
    PushInt(WinLocktime(block_delta)) \o <<OP_CSV, OP_DROP>>
        \o <<OP_SHA256>> \o PushSlice(winner.ticket_hash) \o <<OP_EQUALVERIFY>>
        \o PushSlice(SerializeXOnly(winner.pubkey)) \o <<OP_CHECKSIG>>

ReclaimScript(market_maker, block_delta) ==
    PushInt(ReclaimLocktime(block_delta)) \o <<OP_CSV, OP_DROP>>
        \o PushSlice(SerializeXOnly(market_maker.pubkey)) \o <<OP_CHECKSIG>>

SellbackScript(winner, market_maker) ==
    <<OP_SHA256>> \o PushSlice(winner.payout_hash) \o <<OP_EQUALVERIFY>>
        \o PushSlice(SerializeXOnly(market_maker.pubkey)) \o <<OP_CHECKSIG>>

(***************************************************************************)
(* musig2::KeyAggContext                                                   *)
(***************************************************************************)
\* a plausible slip: the keys aggregated in the order they were given
Sort_skipped(pubkeys) == pubkeys

\* pubkeys.sort(): Point orders by its serialized bytes
Sort(pubkeys) ==
    IF LexLess(Serialize(pubkeys[2]), Serialize(pubkeys[1]))
    THEN <<pubkeys[2], pubkeys[1]>>
    ELSE pubkeys

\* the hash of the ordered key list, an ideal hash: the list's bytes
HashPubkeys(pubkeys) == Serialize(pubkeys[1]) \o Serialize(pubkeys[2])

\* the second distinct key of the list (Infinity: all keys are the same)
SecondKey(pubkeys) == IF pubkeys[2] # pubkeys[1] THEN pubkeys[2] ELSE Infinity

\* BIP 327 KeyAggCoeff: 1 for the second distinct key, a hash of the ordered
\* list and the key, read as a non-zero scalar, for every other
KeyAggCoefficient(pubkeys, p) ==
    IF p = SecondKey(pubkeys) THEN 1
    ELSE 1 + (Digest(HashPubkeys(pubkeys) \o Serialize(p)) % (CurveOrder - 1))

AggregatedPoint(pubkeys) ==
    PointAdd(PointMul(KeyAggCoefficient(pubkeys, pubkeys[1]), pubkeys[1]),
             PointMul(KeyAggCoefficient(pubkeys, pubkeys[2]), pubkeys[2]))

\* a plausible change: a key list that repeats a key is refused
KeyAggContextNew_rejecting_duplicates(pubkeys) ==
    IF pubkeys[1] = pubkeys[2] \/ AggregatedPoint(pubkeys) = Infinity THEN [ok |-> FALSE]
    ELSE [ok |-> TRUE,
          pubkey |-> AggregatedPoint(pubkeys),
          ordered_pubkeys |-> pubkeys,
          parity_acc |-> FALSE,
          tweak_acc |-> 0]

\* KeyAggContext::new: Err when the keys sum to the point at infinity
KeyAggContextNew(pubkeys) ==
    IF AggregatedPoint(pubkeys) = Infinity THEN [ok |-> FALSE]
    ELSE [ok |-> TRUE,
          pubkey |-> AggregatedPoint(pubkeys),
          ordered_pubkeys |-> pubkeys,
          parity_acc |-> FALSE,
          tweak_acc |-> 0]

\* the BIP 341 TapTweak hash of an x-only key and a merkle root, as a scalar.
\* A hash that is zero or sends the key to infinity has negligible
\* probability and is left out: the scalar is drawn from the others.
TapTweakScalar(x, merkle_root) ==
    LET d == Digest(SerializeXOnly(x) \o merkle_root) % (CurveOrder - 2)
    IN IF d + 1 < CurveOrder - x THEN d + 1 ELSE d + 2

\* KeyAggContext::with_taproot_tweak: an x-only tweak, so a joint key with
\* odd y is negated first
WithTaprootTweak(ctx, merkle_root) ==
    LET t == TapTweakScalar(XOnly(ctx.pubkey), merkle_root)
        g == IF HasEvenY(ctx.pubkey) THEN 1 ELSE CurveOrder - 1
        q == PointAdd(PointMul(g, ctx.pubkey), t)
    IN IF q = Infinity THEN [ok |-> FALSE]
       ELSE [ok |-> TRUE,
             pubkey |-> q,
             ordered_pubkeys |-> ctx.ordered_pubkeys,
             parity_acc |-> (ctx.parity_acc # ~HasEvenY(ctx.pubkey)),
             tweak_acc |-> PointAdd(PointMul(g, ctx.tweak_acc), t)]

(***************************************************************************)
(* bitcoin::taproot::TaprootSpendInfo                                      *)
(***************************************************************************)
TAPROOT_CONTROL_BASE_SIZE == 33
TAPROOT_CONTROL_NODE_SIZE == 32
TAPROOT_CONTROL_MAX_NODE_COUNT == 128

\* TapLeaf hash: commits to the leaf version and the length-prefixed script
TapLeafHash(script, ver) == <<0, ver, Len(script)>> \o script

\* TapBranch hash: commits to the two child hashes, the smaller first
TapBranchHash(a, b) ==
    IF LexLess(b, a) THEN <<1>> \o b \o a ELSE <<1>> \o a \o b

NewLeaf(script) ==
    [hash |-> TapLeafHash(script, TapScript),
     leaves |-> <<[script |-> script, ver |-> TapScript, merkle_branch |-> <<>>]>>]

AddSibling(leaves, hash) ==
    [i \in 1..Len(leaves) |->
        [leaves[i] EXCEPT !.merkle_branch = Append(@, hash)]]

\* NodeInfo::combine
Combine(a, b) ==
    [hash |-> TapBranchHash(a.hash, b.hash),
     leaves |-> AddSibling(a.leaves, b.hash) \o AddSibling(b.leaves, a.hash)]

TooDeep(node) ==
    \E i \in 1..Len(node.leaves) :
        Len(node.leaves[i].merkle_branch) > TAPROOT_CONTROL_MAX_NODE_COUNT

\* How a heap of (weight, node) pairs orders two nodes of the same weight is
\* the heap's business; the model takes every order it could use.
TieBreaks == {"first", "last", "hash"}

MinWeight(heap) ==
    CHOOSE w \in {heap[i].weight : i \in 1..Len(heap)} :
        \A i \in 1..Len(heap) : w <= heap[i].weight

Lightest(heap) == {i \in 1..Len(heap) : heap[i].weight = MinWeight(heap)}

\* the index of the node BinaryHeap::pop returns: one of lowest weight
PopIndex(heap, tb) ==
    LET c == Lightest(heap)
    IN CASE tb = "first" -> CHOOSE i \in c : \A j \in c : i <= j
         [] tb = "last"  -> CHOOSE i \in c : \A j \in c : i >= j
         [] OTHER -> CHOOSE i \in c : \A j \in c :
                        j = i \/ LexLess(heap[j].node.hash, heap[i].node.hash)
                              \/ (heap[j].node.hash = heap[i].node.hash /\ i <= j)

Remove(heap, i) == [k \in 1..(Len(heap) - 1) |-> IF k < i THEN heap[k] ELSE heap[k + 1]]

\* the loop of TaprootSpendInfo::with_huffman_tree: merge the two nodes of
\* lowest weight until one is left (the weights here sum to 4, far from the
\* u32 range where the sum saturates)
RECURSIVE HuffmanTree(_, _)
HuffmanTree(heap, tb) ==
    IF Len(heap) = 1 THEN [ok |-> TRUE, node |-> heap[1].node]
    ELSE LET i == PopIndex(heap, tb)
             h1 == Remove(heap, i)
             j == PopIndex(h1, tb)
             h2 == Remove(h1, j)
             n == Combine(heap[i].node, h1[j].node)
         IN IF TooDeep(n) THEN [ok |-> FALSE]
            ELSE HuffmanTree(
                    Append(h2, [weight |-> heap[i].weight + h1[j].weight,
                                node |-> n]), tb)

\* TaprootSpendInfo::from_node_info: the output key is the internal key
\* tweaked by the merkle root
FromNodeInfo(internal_key, node) ==
    LET out == PointAdd(internal_key, TapTweakScalar(internal_key, node.hash))
    IN [internal_key |-> internal_key,
        merkle_root |-> [some |-> TRUE, hash |-> node.hash],
        output_key |-> XOnly(out),
        output_key_parity |-> IF HasEvenY(out) THEN 0 ELSE 1,
        script_map |-> {node.leaves[i] : i \in 1..Len(node.leaves)}]

WithHuffmanTree(internal_key, script_weights, tb) ==
    LET heap == [i \in 1..Len(script_weights) |->
                    [weight |-> script_weights[i][1],
                     node |-> NewLeaf(script_weights[i][2])]]
        t == HuffmanTree(heap, tb)
    IN IF t.ok THEN [ok |-> TRUE, info |-> FromNodeInfo(internal_key, t.node)]
       ELSE [ok |-> FALSE]

\* TaprootSpendInfo::control_block: the shortest proof recorded for the leaf
ControlBlock(spend_info, script, ver) ==
    LET proofs == {l \in spend_info.script_map : l.script = script /\ l.ver = ver}
    IN IF proofs = {} THEN [some |-> FALSE]
       ELSE LET l == CHOOSE p \in proofs :
                        \A q \in proofs : Len(p.merkle_branch) <= Len(q.merkle_branch)
            IN [some |-> TRUE,
                leaf_version |-> l.ver,
                output_key_parity |-> spend_info.output_key_parity,
                internal_key |-> spend_info.internal_key,
                merkle_branch |-> l.merkle_branch]

ControlBlockSize(cb) ==
    TAPROOT_CONTROL_BASE_SIZE + TAPROOT_CONTROL_NODE_SIZE * Len(cb.merkle_branch)

(***************************************************************************)
(* bitcoin::transaction::InputWeightPrediction                             *)
(***************************************************************************)
\* the length of a compact-size integer (lengths here stay below 2^16)
VarIntLen(n) == IF n < 253 THEN 1 ELSE IF n <= 65535 THEN 3 ELSE 5

RECURSIVE ElementsSize(_)
ElementsSize(lens) ==
    IF lens = <<>> THEN 0
    ELSE Head(lens) + VarIntLen(Head(lens)) + ElementsSize(Tail(lens))

InputWeightPredictionNew(input_script_len, witness_element_lengths) ==
    [script_size |-> input_script_len + VarIntLen(input_script_len),
     witness_size |-> IF Len(witness_element_lengths) > 0
                      THEN ElementsSize(witness_element_lengths)
                               + VarIntLen(Len(witness_element_lengths))
                      ELSE 0]

(***************************************************************************)
(* SplitSpendInfo                                                          *)
(***************************************************************************)
\* a plausible slip: unwrap() where ? was meant
Propagate_unwrapped(cause) == [kind |-> "panic", cause |-> cause]

\* the ? operator: the callee's error is returned as this call's Err
Propagate(cause) == [kind |-> "err", cause |-> cause]

\* a failed expect(msg): the call panics
Expect(msg) == [kind |-> "panic", cause |-> msg]

Pubkeys(winner, market_maker) == <<market_maker.pubkey, winner.pubkey>>

\* plausible slips in the leaf list: every weight 1; the weight 2 on the win
\* leaf; the sellback script given twice
WeightedScriptLeaves_equal_weights(sellback_script, win_script, reclaim_script) ==
    << <<1, sellback_script>>, <<1, win_script>>, <<1, reclaim_script>> >>

WeightedScriptLeaves_win_heaviest(sellback_script, win_script, reclaim_script) ==
    << <<1, sellback_script>>, <<2, win_script>>, <<1, reclaim_script>> >>

WeightedScriptLeaves_sellback_twice(sellback_script, win_script, reclaim_script) ==
    << <<2, sellback_script>>, <<1, win_script>>, <<1, sellback_script>> >>

WeightedScriptLeaves(sellback_script, win_script, reclaim_script) ==
    << <<2, sellback_script>>, <<1, win_script>>, <<1, reclaim_script>> >>

\* a plausible slip: the context tweaked as for a key-only output, with no
\* script tree committed
TweakRoot_without_tree(tr_spend_info) == [some |-> TRUE, hash |-> <<>>]

\* the root handed to with_taproot_tweak
TweakRoot(tr_spend_info) == tr_spend_info.merkle_root

\* SplitSpendInfo::new.  kind is "ok" (Ok(split_spend_info)), "err" (an Err
\* returned by one of the ? steps) or "panic" (an expect that failed).
new(winner, market_maker, payout_value, block_delta, tb) ==
    LET pubkeys == Sort(Pubkeys(winner, market_maker))
        untweaked_ctx == KeyAggContextNew(pubkeys)
        win_script == WinScript(winner, block_delta)
        reclaim_script == ReclaimScript(market_maker, block_delta)
        sellback_script == SellbackScript(winner, market_maker)
    IN IF ~untweaked_ctx.ok THEN Propagate("key_agg")
       ELSE
       LET joint_payout_pubkey == untweaked_ctx.pubkey
           tree == WithHuffmanTree(XOnly(joint_payout_pubkey),
                       WeightedScriptLeaves(sellback_script, win_script, reclaim_script),
                       tb)
       IN IF ~tree.ok THEN Propagate("taproot_builder")
          ELSE
          LET tr_spend_info == tree.info
              root == TweakRoot(tr_spend_info)
          IN IF ~root.some THEN Expect("should always have merkle root")
             ELSE
             LET tweaked_ctx == WithTaprootTweak(untweaked_ctx, root.hash)
             IN IF ~tweaked_ctx.ok THEN Propagate("tweak")
                ELSE [kind |-> "ok", cause |-> "",
                      value |-> [untweaked_ctx |-> untweaked_ctx,
                                 tweaked_ctx |-> tweaked_ctx,
                                 payout_value |-> payout_value,
                                 spend_info |-> tr_spend_info,
                                 winner |-> winner,
                                 win_script |-> win_script,
                                 reclaim_script |-> reclaim_script,
                                 sellback_script |-> sellback_script]]

key_agg_ctx_untweaked(self) == self.untweaked_ctx

key_agg_ctx_tweaked(self) == self.tweaked_ctx

\* ScriptBuf::new_p2tr_tweaked: OP_1 and a push of the 32-byte output key
script_pubkey(self) ==
    <<OP_TRUE, OP_PUSHBYTES_32>> \o SerializeXOnly(self.spend_info.output_key)

payout_value(self) == self.payout_value

input_weight_for_win_tx(self) ==
    LET win_control_block == ControlBlock(self.spend_info, self.win_script, TapScript)
    IN IF ~win_control_block.some
       THEN Expect("win script cannot be missing")
       ELSE [kind |-> "ok", cause |-> "",
             value |-> InputWeightPredictionNew(0,
                 <<SCHNORR_SIGNATURE_SIZE, PREIMAGE_SIZE,
                   Len(self.win_script), ControlBlockSize(win_control_block)>>)]

\* a plausible slip: the reclaim witness copied from the win witness,
\* preimage included
input_weight_for_reclaim_tx_with_preimage(self) ==
    LET reclaim_control_block ==
            ControlBlock(self.spend_info, self.reclaim_script, TapScript)
    IN IF ~reclaim_control_block.some
       THEN [kind |-> "panic", cause |-> "reclaim script cannot be missing"]
       ELSE [kind |-> "ok", cause |-> "",
             value |-> InputWeightPredictionNew(0,
                 <<SCHNORR_SIGNATURE_SIZE, PREIMAGE_SIZE,
                   Len(self.reclaim_script), ControlBlockSize(reclaim_control_block)>>)]

input_weight_for_reclaim_tx(self) ==
    LET reclaim_control_block ==
            ControlBlock(self.spend_info, self.reclaim_script, TapScript)
    IN IF ~reclaim_control_block.some
       THEN Expect("reclaim script cannot be missing")
       ELSE [kind |-> "ok", cause |-> "",
             value |-> InputWeightPredictionNew(0,
                 <<SCHNORR_SIGNATURE_SIZE,
                   Len(self.reclaim_script), ControlBlockSize(reclaim_control_block)>>)]

input_weight_for_sellback_tx(self) ==
    LET sellback_control_block ==
            ControlBlock(self.spend_info, self.sellback_script, TapScript)
    IN IF ~sellback_control_block.some
       THEN Expect("sellback script cannot be missing")
       ELSE [kind |-> "ok", cause |-> "",
             value |-> InputWeightPredictionNew(0,
                 <<SCHNORR_SIGNATURE_SIZE, PREIMAGE_SIZE,
                   Len(self.sellback_script), ControlBlockSize(sellback_control_block)>>)]

(***************************************************************************)
(* The callers' inputs                                                     *)
(***************************************************************************)
Players ==
    {[pubkey |-> k, ticket_hash |-> Fill(32, h), payout_hash |-> Fill(32, 255 - h)] :
        k \in Points, h \in TicketBytes}

MarketMakers == {[pubkey |-> k] : k \in Points}

Amounts == 1..MaxPayout

AllArgs ==
    {[winner |-> w, market_maker |-> m, payout_value |-> v, block_delta |-> d] :
        w \in Players, m \in MarketMakers, v \in Amounts, d \in Delays}

\* new on every input of the model, computed once
NewResult ==
    [a \in AllArgs |-> [tb \in TieBreaks |->
        new(a.winner, a.market_maker, a.payout_value, a.block_delta, tb)]]

(***************************************************************************)
(* The state: each run is one call of SplitSpendInfo::new by one of the    *)
(* two parties, and the descriptor it returned                             *)
(***************************************************************************)
VARIABLES
    args,     \* the arguments of the run's call of new (None: not called)
    result,   \* how the call ended: kind "none", "ok", "err" or "panic", and why
    info,     \* the SplitSpendInfo the call returned (None: none)
    ret       \* what the last input_weight_for_* call returned

vars == <<args, result, info, ret>>

Init ==
    /\ args = [r \in Runs |-> None]
    /\ result = [r \in Runs |-> [kind |-> "none", cause |-> ""]]
    /\ info = [r \in Runs |-> None]
    /\ ret = None

New(r) ==
    /\ result[r].kind = "none"
    /\ \E a \in AllArgs, tb \in TieBreaks :
        LET out == NewResult[a][tb]
        IN /\ args' = [args EXCEPT ![r] = a]
           /\ result' = [result EXCEPT ![r] = [kind |-> out.kind, cause |-> out.cause]]
           /\ info' = [info EXCEPT ![r] = IF out.kind = "ok" THEN out.value ELSE None]
    /\ UNCHANGED ret

InputWeightForWinTx(r) ==
    /\ result[r].kind = "ok"
    /\ ret' = [run |-> r, path |-> "win", out |-> input_weight_for_win_tx(info[r])]
    /\ UNCHANGED <<args, result, info>>

InputWeightForReclaimTx(r) ==
    /\ result[r].kind = "ok"
    /\ ret' = [run |-> r, path |-> "reclaim", out |-> input_weight_for_reclaim_tx(info[r])]
    /\ UNCHANGED <<args, result, info>>

InputWeightForSellbackTx(r) ==
    /\ result[r].kind = "ok"
    /\ ret' = [run |-> r, path |-> "sellback", out |-> input_weight_for_sellback_tx(info[r])]
    /\ UNCHANGED <<args, result, info>>

Next ==
    \E r \in Runs :
        \/ New(r)
        \/ InputWeightForWinTx(r)
        \/ InputWeightForReclaimTx(r)
        \/ InputWeightForSellbackTx(r)

Spec == Init /\ [][Next]_vars

(***************************************************************************)
(* What the scripts mean on chain (BIP 68, BIP 112)                        *)
(***************************************************************************)
\* the script as a list of instructions: an opcode, and the bytes it pushes
RECURSIVE Instructions(_, _)
Instructions(script, i) ==
    IF i > Len(script) THEN <<>>
    ELSE IF script[i] >= 1 /\ script[i] < OP_PUSHDATA1
         THEN <<[op |-> script[i], data |-> SubSeq(script, i + 1, i + script[i])]>>
                  \o Instructions(script, i + 1 + script[i])
         ELSE <<[op |-> script[i], data |-> <<>>]>> \o Instructions(script, i + 1)

\* a little-endian script number; the top bit of the last byte is the sign
RECURSIVE ReadScriptInt(_)
ReadScriptInt(bytes) ==
    IF bytes = <<>> THEN 0
    ELSE IF Len(bytes) = 1
         THEN IF Head(bytes) >= 128 THEN -(Head(bytes) - 128) ELSE Head(bytes)
         ELSE LET rest == ReadScriptInt(Tail(bytes))
              IN IF rest < 0 THEN -(Head(bytes) + 256 * (-rest))
                 ELSE Head(bytes) + 256 * rest

\* the number an instruction leaves on the stack
PushedInt(ins) ==
    IF ins.op = OP_0 THEN 0
    ELSE IF ins.op >= OP_TRUE /\ ins.op <= OP_TRUE + 15 THEN ins.op - OP_TRUE + 1
    ELSE ReadScriptInt(ins.data)

\* the numbers the script hands to OP_CSV
CsvOperands(script) ==
    LET ins == Instructions(script, 1)
    IN {PushedInt(ins[k - 1]) : k \in {j \in 2..Len(ins) : ins[j].op = OP_CSV}}

\* OP_CSV compares the low 16 bits of its operand with the input's relative
\* lock (bits 22 and 31, the unit and the disable flag, are clear in every
\* number below 2^17): the age in blocks from which the check can pass
CsvRequiredAge(n) == n % (SEQUENCE_LOCKTIME_MASK + 1)

\* whether the script's timelocks allow a spend of an output `age` blocks old
TimelockEnabled(script, age) ==
    \A n \in CsvOperands(script) : age >= CsvRequiredAge(n)

(***************************************************************************)
(* Properties                                                              *)
(***************************************************************************)
Called(r) == result[r].kind # "none"
Built(r) == result[r].kind = "ok"

\* the joint point of a counterparty key and a winner key, sorted as new
\* sorts them (0: the point at infinity), computed once
JointPoint ==
    [m \in Points |-> [w \in Points |-> AggregatedPoint(Sort(<<m, w>>))]]

\* the serialized length of the control block the tree holds for a script
ProofLen(self, script) ==
    1 + 32 + 32 * Len(ControlBlock(self.spend_info, script, TapScript).merkle_branch)

\* C1: every prediction is made for an empty unlocking script (one length
\* byte) and a witness that holds the path's elements and nothing else, each
\* with its one-byte length prefix, after the one-byte element count: win is
\* the 64-byte signature, the preimage, the win script and the win control
\* block; sellback the same with the sellback script and control block;
\* reclaim the signature, the reclaim script and the reclaim control block,
\* with no preimage.
C1_PredictedWeight ==
    (ret # None /\ ret.out.kind = "ok") =>
        LET self == info[ret.run]
            p == ret.out.value
        IN /\ p.script_size = 1
           /\ ret.path = "win" =>
                p.witness_size = 1 + (1 + 64) + (1 + PREIMAGE_SIZE)
                    + (1 + Len(self.win_script)) + (1 + ProofLen(self, self.win_script))
           /\ ret.path = "sellback" =>
                p.witness_size = 1 + (1 + 64) + (1 + PREIMAGE_SIZE)
                    + (1 + Len(self.sellback_script))
                    + (1 + ProofLen(self, self.sellback_script))
           /\ ret.path = "reclaim" =>
                p.witness_size = 1 + (1 + 64)
                    + (1 + Len(self.reclaim_script))
                    + (1 + ProofLen(self, self.reclaim_script))

C1_Witness ==
    /\ ret # None
    /\ ret.path = "reclaim"
    /\ ret.out.kind = "ok"
    /\ Len(info[ret.run].reclaim_script) > 37

\* C2: in every descriptor new returns, the tweaked context is the untweaked
\* context of that descriptor tweaked with the merkle root of its tree, and
\* its public key is the x-only output key that script_pubkey() pushes.
C2_TweakedKeyIsOutputKey ==
    \A r \in Runs : Built(r) =>
        LET self == info[r]
        IN /\ self.spend_info.merkle_root.some
           /\ key_agg_ctx_tweaked(self) =
                WithTaprootTweak(key_agg_ctx_untweaked(self),
                                 self.spend_info.merkle_root.hash)
           /\ SubSeq(script_pubkey(self), 3, Len(script_pubkey(self)))
                = SerializeXOnly(key_agg_ctx_tweaked(self).pubkey)

C2_Witness ==
    \E r \in Runs :
        /\ Built(r)
        /\ ~HasEvenY(key_agg_ctx_untweaked(info[r]).pubkey)
        /\ ~HasEvenY(key_agg_ctx_tweaked(info[r]).pubkey)

\* two runs that built a descriptor from the same winner, counterparty and
\* payout amount but different round delays
DelayOnlyDiffers(r, s) ==
    /\ Built(r) /\ Built(s)
    /\ args[r].winner = args[s].winner
    /\ args[r].market_maker = args[s].market_maker
    /\ args[r].payout_value = args[s].payout_value
    /\ args[r].block_delta # args[s].block_delta

\* C3, as stated: a different round delay changes the win and reclaim
\* scripts and leaves the joint key, the commitment root and the output key
\* (so script_pubkey()) as they were.
C3_Original ==
    \A r, s \in Runs : DelayOnlyDiffers(r, s) =>
        /\ info[r].win_script # info[s].win_script
        /\ info[r].reclaim_script # info[s].reclaim_script
        /\ info[r].untweaked_ctx.pubkey = info[s].untweaked_ctx.pubkey
        /\ info[r].spend_info.merkle_root = info[s].spend_info.merkle_root
        /\ info[r].spend_info.output_key = info[s].spend_info.output_key
        /\ script_pubkey(info[r]) = script_pubkey(info[s])

\* C3, amended: a different round delay changes the win and reclaim scripts
\* and, with them, the commitment root of the tree; the joint key and the
\* sellback script are as they were.
C3_DelayChangesScriptsAndRoot ==
    \A r, s \in Runs : DelayOnlyDiffers(r, s) =>
        /\ info[r].win_script # info[s].win_script
        /\ info[r].reclaim_script # info[s].reclaim_script
        /\ info[r].spend_info.merkle_root # info[s].spend_info.merkle_root
        /\ info[r].untweaked_ctx = info[s].untweaked_ctx
        /\ info[r].spend_info.internal_key = info[s].spend_info.internal_key
        /\ info[r].sellback_script = info[s].sellback_script

C3_Witness ==
    \E r, s \in Runs :
        /\ DelayOnlyDiffers(r, s)
        /\ info[r].spend_info.output_key # info[s].spend_info.output_key

\* C4: two calls that receive the same two keys in exchanged roles end the
\* same way and, when they build a descriptor, aggregate the same ordered
\* key list into the same joint key.
C4_AggregationOrderIndependent ==
    \A r, s \in Runs :
        (/\ Called(r) /\ Called(s)
         /\ args[r].winner.pubkey = args[s].market_maker.pubkey
         /\ args[r].market_maker.pubkey = args[s].winner.pubkey) =>
            /\ result[r].kind = result[s].kind
            /\ Built(r) =>
                /\ info[r].untweaked_ctx.pubkey = info[s].untweaked_ctx.pubkey
                /\ info[r].untweaked_ctx.ordered_pubkeys
                       = info[s].untweaked_ctx.ordered_pubkeys

C4_Witness ==
    \E r, s \in Runs :
        /\ Built(r) /\ Built(s)
        /\ args[r].winner.pubkey # args[r].market_maker.pubkey
        /\ args[r].winner.pubkey = args[s].market_maker.pubkey
        /\ args[r].market_maker.pubkey = args[s].winner.pubkey

C6_SellbackShallowest ==
    \A r \in Runs : Built(r) =>
        LET self == info[r]
            cb(sc) == ControlBlock(self.spend_info, sc, TapScript)
        IN /\ Len(cb(self.sellback_script).merkle_branch)
                <= Len(cb(self.win_script).merkle_branch)
           /\ Len(cb(self.sellback_script).merkle_branch)
                <= Len(cb(self.reclaim_script).merkle_branch)
           /\ ControlBlockSize(cb(self.sellback_script))
                <= ControlBlockSize(cb(self.win_script))
           /\ ControlBlockSize(cb(self.sellback_script))
                <= ControlBlockSize(cb(self.reclaim_script))

C6_Witness ==
    /\ ret # None
    /\ ret.path = "sellback"
    /\ ret.out.kind = "ok"
    /\ ProofLen(info[ret.run], info[ret.run].sellback_script)
           < ProofLen(info[ret.run], info[ret.run].win_script)

\* C7: in every descriptor the leaves of the tree are the three stored
\* scripts, three of them, the tree holds a control block for each, and no
\* input_weight_for_* call ends on a missing one.
C7_ScriptsAreTheLeaves ==
    /\ \A r \in Runs : Built(r) =>
        LET self == info[r]
        IN /\ {l.script : l \in self.spend_info.script_map}
                = {self.win_script, self.reclaim_script, self.sellback_script}
           /\ Cardinality(self.spend_info.script_map) = 3
           /\ Cardinality({self.win_script, self.reclaim_script,
                           self.sellback_script}) = 3
           /\ \A sc \in {self.win_script, self.reclaim_script, self.sellback_script} :
                ControlBlock(self.spend_info, sc, TapScript).some
    /\ ret # None => ret.out.kind = "ok"

C7_Witness ==
    /\ ret # None
    /\ ret.path = "win"
    /\ ret.out.kind = "ok"
    /\ \A r \in Runs : Built(r)

ErrCauses == {"key_agg", "taproot_builder", "tweak"}
PanicCauses ==
    {"should always have merkle root", "win script cannot be missing",
     "reclaim script cannot be missing", "sellback script cannot be missing"}

Ages == {0, 1, 16, 32, 144, 288, 32768, 65534, 65535}

\* C10: the reclaim script hands exactly 2 * round_delay to OP_CSV and the
\* win script exactly round_delay, the sellback script has no timelock; so
\* sellback is enabled from age 0, win from age round_delay, reclaim from age
\* 2 * round_delay, and for a positive round_delay reclaim is never enabled
\* at an age at which win is not.
C10_TimelockOrder ==
    \A r \in Runs : Built(r) =>
        LET self == info[r]
            d == args[r].block_delta
        IN /\ CsvOperands(self.reclaim_script) = {2 * d}
           /\ CsvOperands(self.win_script) = {d}
           /\ CsvOperands(self.sellback_script) = {}
           /\ \A age \in Ages :
                /\ TimelockEnabled(self.sellback_script, age)
                /\ TimelockEnabled(self.win_script, age) <=> age >= d
                /\ TimelockEnabled(self.reclaim_script, age) <=> age >= 2 * d
                /\ (d > 0 /\ TimelockEnabled(self.reclaim_script, age))
                       => TimelockEnabled(self.win_script, age)
====
